---- MODULE Spec2Model ----
(***************************************************************************)
(* A model of the CHIP-8 interpreter of chip8/src/lib.rs (struct Chip8 and *)
(* its methods new, load, reset, step, tick_timers, press_key,             *)
(* unpress_key, was_redrawn) as driven by the host of emulator/src/main.rs.*)
(* A Rust panic ends the run: it is recorded in the variable panic, and no *)
(* operation is enabled afterwards.                                        *)
(***************************************************************************)
EXTENDS Integers, Sequences, FiniteSets, TLC

\* ------------------------------------------------------------ constants
SCREEN_WIDTH == 64
SCREEN_HEIGHT == 32
MEMORY_SIZE == 4096
\* 0x200, the literal used by new, load and reset
PROGRAM_START == 512
\* 0x50, the literal of initialize_font
FONT_START == 80
\* the value new and reset give both timers
TIMER_START == 60
\* main.rs: const TICKS_PER_FRAME
TICKS_PER_FRAME == 10

\* ------------------------------------------------------------ bounds
\* tick_timers calls since construction or the last reset
MaxTicks == 3
\* load calls in a row, where programs are loaded over one another (SpecLoad)
MaxLoads == 3

\* ------------------------------------------------------------ u8 helpers
RECURSIVE bitand(_, _)
bitand(a, b) ==
    IF a = 0 \/ b = 0 THEN 0
    ELSE (a % 2) * (b % 2) + 2 * bitand(a \div 2, b \div 2)

RECURSIVE bitor(_, _)
bitor(a, b) ==
    IF a = 0 THEN b
    ELSE IF b = 0 THEN a
    ELSE (IF a % 2 = 1 \/ b % 2 = 1 THEN 1 ELSE 0) + 2 * bitor(a \div 2, b \div 2)

RECURSIVE bitxor(_, _)
bitxor(a, b) ==
    IF a = 0 THEN b
    ELSE IF b = 0 THEN a
    ELSE (IF a % 2 # b % 2 THEN 1 ELSE 0) + 2 * bitxor(a \div 2, b \div 2)

\* u8::wrapping_add
wrapping_add(a, b) == (a + b) % 256

\* u8::overflowing_add: the wrapped sum and whether the true sum left 0..255
overflowing_add(a, b) == <<(a + b) % 256, a + b > 255>>

\* u8::overflowing_sub: the wrapped difference and whether a - b went below 0
overflowing_sub(a, b) == <<(a - b + 256) % 256, a < b>>

\* Combines 3 nibbles into one u16, top 4 bits empty.
combine_nibbles(nib1, nib2, nib3) ==
    bitor(bitor((nib1 % 16) * 256, (nib2 % 16) * 16), nib3 % 16)

\* ------------------------------------------------------------ font
font ==
    << 240, 144, 144, 144, 240,
        32,  96,  32,  32, 112,
       240,  16, 240, 128, 240,
       240,  16, 240,  16, 240,
       144, 144, 240,  16,  16,
       240, 128, 240,  16, 240,
       240, 128, 240, 144, 240,
       240,  16,  32,  64,  64,
       240, 144, 240, 144, 240,
       240, 144, 240,  16, 240,
       240, 144, 240, 144, 144,
       224, 144, 224, 144, 224,
       240, 128, 128, 128, 240,
       224, 144, 144, 144, 224,
       240, 128, 240, 128, 240,
       240, 128, 240, 128, 128 >>

\* memory[0x50 + i] = font[i] for each i, on a zeroed memory
initialize_font(mem) ==
    [a \in 0..(MEMORY_SIZE - 1) |->
        IF a >= FONT_START /\ a < FONT_START + Len(font)
        THEN font[a - FONT_START + 1]
        ELSE mem[a]]

\* ------------------------------------------------------------ state
VARIABLES
    program_counter,  \* u16
    memory,           \* [u8; MEMORY_SIZE]
    registers,        \* [u8; 16]
    needs_redraw,     \* bool
    index_register,   \* u16
    delay_timer,      \* u8
    sound_timer,      \* u8
    display,          \* [bool; SCREEN_WIDTH * SCREEN_HEIGHT]
    keyboard,         \* [bool; 16]
    stack,            \* Vec<u16>
    instruction,      \* the four nibbles decoded by the last step
    panic,            \* "none", or the failure that ended the run
    fresh,            \* TRUE exactly when the last call was new or reset
    ticks,            \* tick_timers calls since new/reset made outside the
                      \* frame loop (bounded by MaxTicks)
    loads,            \* load calls since new/reset
    frame             \* the host's AboutToWait handler: where it is, and the
                      \* step and tick_timers calls of the current frame

vars == <<program_counter, memory, registers, needs_redraw, index_register,
          delay_timer, sound_timer, display, keyboard, stack,
          instruction, panic, fresh, ticks, loads, frame>>

\* ------------------------------------------------------------ the frame loop
\* The AboutToWait handler of the host: `for _ in 0..TICKS_PER_FRAME` around
\* step and tick_timers. frame.at is the handler's position: "step" or "tick"
\* inside the loop body, "idle" between two events, and "none" where the
\* host's calls are taken in any order instead. frame.steps and frame.ticks
\* count the calls the handler has made in the current frame.
NoFrameLoop == [at |-> "none", steps |-> 0, ticks |-> 0]
BetweenFrames == [at |-> "idle", steps |-> 0, ticks |-> 0]

\* the handler is about to call step, or there is no handler
host_may_step == frame.at \in {"none", "step"}

\* the handler is about to call tick_timers, or there is no handler
host_may_tick == frame.at \in {"none", "tick"}

\* emulator.tick_timers() has returned inside the loop body: the next
\* iteration, or out of the loop after TICKS_PER_FRAME of them
after_tick(f) ==
    IF f.at = "tick"
    THEN [f EXCEPT !.at = IF f.steps < TICKS_PER_FRAME THEN "step" ELSE "idle",
                   !.ticks = @ + 1]
    ELSE f

\* emulator.step() has returned (or panicked) inside the loop body
after_step(f) ==
    IF f.at = "step" THEN [f EXCEPT !.at = "tick", !.steps = @ + 1] ELSE f

ZeroMemory == [a \in 0..(MEMORY_SIZE - 1) |-> 0]
ClearDisplay == [i \in 0..(SCREEN_WIDTH * SCREEN_HEIGHT - 1) |-> FALSE]
NoKeys == [k \in 0..15 |-> FALSE]
ZeroRegisters == [r \in 0..15 |-> 0]
\* let mut memory = [0; MEMORY_SIZE]; Self::initialize_font(&mut memory)
FreshMemory == initialize_font(ZeroMemory)

\* Chip8::new
new ==
    /\ program_counter = PROGRAM_START
    /\ memory = FreshMemory
    /\ registers = ZeroRegisters
    /\ needs_redraw = FALSE
    /\ index_register = 0
    /\ delay_timer = TIMER_START
    /\ sound_timer = TIMER_START
    /\ display = ClearDisplay
    /\ keyboard = NoKeys
    /\ stack = <<>>

\* main has constructed the VM and called nothing else yet
Constructed ==
    /\ new
    /\ instruction = <<>>
    /\ panic = "none"
    /\ fresh = TRUE
    /\ ticks = 0
    /\ loads = 0

\* the host's calls taken in any order
Init ==
    /\ Constructed
    /\ frame = NoFrameLoop

\* reset leaving memory as the program left it
reset_keeps_memory ==
    /\ panic = "none"
    /\ program_counter' = PROGRAM_START
    /\ display' = ClearDisplay
    /\ registers' = ZeroRegisters
    /\ index_register' = 0
    /\ delay_timer' = TIMER_START
    /\ sound_timer' = TIMER_START
    /\ keyboard' = NoKeys
    /\ stack' = <<>>
    /\ needs_redraw' = TRUE
    /\ instruction' = <<>>
    /\ fresh' = TRUE
    /\ ticks' = 0
    /\ loads' = 0
    /\ UNCHANGED frame
    /\ UNCHANGED <<memory, panic>>

\* reset leaving the keypad flags and the call stack as they were
reset_keeps_keys_and_stack ==
    /\ panic = "none"
    /\ program_counter' = PROGRAM_START
    /\ display' = ClearDisplay
    /\ memory' = FreshMemory
    /\ registers' = ZeroRegisters
    /\ index_register' = 0
    /\ delay_timer' = TIMER_START
    /\ sound_timer' = TIMER_START
    /\ needs_redraw' = TRUE
    /\ instruction' = <<>>
    /\ fresh' = TRUE
    /\ ticks' = 0
    /\ loads' = 0
    /\ UNCHANGED frame
    /\ UNCHANGED <<keyboard, stack, panic>>

\* Chip8::reset
reset ==
    /\ panic = "none"
    /\ program_counter' = PROGRAM_START
    /\ display' = ClearDisplay
    /\ memory' = FreshMemory
    /\ registers' = ZeroRegisters
    /\ index_register' = 0
    /\ delay_timer' = TIMER_START
    /\ sound_timer' = TIMER_START
    /\ keyboard' = NoKeys
    /\ stack' = <<>>
    /\ needs_redraw' = TRUE
    /\ instruction' = <<>>
    /\ fresh' = TRUE
    /\ ticks' = 0
    /\ loads' = 0
    /\ UNCHANGED frame
    /\ UNCHANGED panic

\* load with the capacity test off by one: a program of exactly the capacity
\* is refused
load_off_by_one(data) ==
    /\ panic = "none"
    /\ IF Len(data) >= MEMORY_SIZE - PROGRAM_START
       THEN /\ panic' = "CapacityError"
            /\ UNCHANGED memory
       ELSE /\ memory' = [a \in 0..(MEMORY_SIZE - 1) |->
                            IF a >= PROGRAM_START /\ a < PROGRAM_START + Len(data)
                            THEN data[a - PROGRAM_START + 1]
                            ELSE memory[a]]
            /\ UNCHANGED panic
    /\ fresh' = FALSE
    /\ loads' = loads + 1
    /\ UNCHANGED <<program_counter, registers, needs_redraw, index_register,
                   delay_timer, sound_timer, display, keyboard, stack,
                   instruction, ticks, frame>>

\* Chip8::load: panics before any write when data does not fit
load(data) ==
    /\ panic = "none"
    /\ IF Len(data) > MEMORY_SIZE - PROGRAM_START
       THEN /\ panic' = "CapacityError"
            /\ UNCHANGED memory
       ELSE /\ memory' = [a \in 0..(MEMORY_SIZE - 1) |->
                            IF a >= PROGRAM_START /\ a < PROGRAM_START + Len(data)
                            THEN data[a - PROGRAM_START + 1]
                            ELSE memory[a]]
            /\ UNCHANGED panic
    /\ fresh' = FALSE
    /\ loads' = loads + 1
    /\ UNCHANGED <<program_counter, registers, needs_redraw, index_register,
                   delay_timer, sound_timer, display, keyboard, stack,
                   instruction, ticks, frame>>

\* a timer decremented without the test for 0: u8::wrapping_sub(1)
tick_down_wrapping(t) == (t + 255) % 256

\* one timer of tick_timers: decrement unless already 0
tick_down(t) == IF t > 0 THEN t - 1 ELSE t

\* Chip8::tick_timers
tick_timers ==
    /\ panic = "none"
    /\ host_may_tick
    /\ frame.at = "none" => ticks < MaxTicks
    /\ sound_timer' = tick_down(sound_timer)
    /\ delay_timer' = tick_down(delay_timer)
    /\ fresh' = FALSE
    /\ ticks' = IF frame.at = "none" THEN ticks + 1 ELSE ticks
    /\ frame' = after_tick(frame)
    /\ UNCHANGED <<program_counter, memory, registers, needs_redraw,
                   index_register, display, keyboard, stack, instruction,
                   panic, loads>>

\* Chip8::press_key
press_key(key_num) ==
    /\ panic = "none"
    /\ IF key_num > 15
       THEN UNCHANGED keyboard
       ELSE keyboard' = [keyboard EXCEPT ![key_num] = TRUE]
    /\ fresh' = FALSE
    /\ UNCHANGED <<program_counter, memory, registers, needs_redraw,
                   index_register, delay_timer, sound_timer, display, stack,
                   instruction, panic, ticks, loads, frame>>

\* unpress_key clearing the whole keypad instead of one flag
unpress_key_clears_all(key_num) ==
    /\ panic = "none"
    /\ IF key_num > 15
       THEN UNCHANGED keyboard
       ELSE keyboard' = NoKeys
    /\ fresh' = FALSE
    /\ UNCHANGED <<program_counter, memory, registers, needs_redraw,
                   index_register, delay_timer, sound_timer, display, stack,
                   instruction, panic, ticks, loads, frame>>

\* Chip8::unpress_key
unpress_key(key_num) ==
    /\ panic = "none"
    /\ IF key_num > 15
       THEN UNCHANGED keyboard
       ELSE keyboard' = [keyboard EXCEPT ![key_num] = FALSE]
    /\ fresh' = FALSE
    /\ UNCHANGED <<program_counter, memory, registers, needs_redraw,
                   index_register, delay_timer, sound_timer, display, stack,
                   instruction, panic, ticks, loads, frame>>

\* Chip8::was_redrawn
was_redrawn ==
    /\ panic = "none"
    /\ needs_redraw' = FALSE
    /\ fresh' = FALSE
    /\ UNCHANGED <<program_counter, memory, registers, index_register,
                   delay_timer, sound_timer, display, keyboard, stack,
                   instruction, panic, ticks, loads, frame>>

\* ------------------------------------------------------------ step: fetch
\* the host loads a program before its event loop starts stepping
program_loaded == loads > 0

\* memory[pc] and memory[pc + 1] are both inside the array
CanFetch ==
    /\ panic = "none"
    /\ program_loaded
    /\ host_may_step
    /\ program_counter + 1 < MEMORY_SIZE

byte1 == memory[program_counter]
byte2 == memory[program_counter + 1]

\* the tuple `instruction` of step
Decode == <<byte1 \div 16, byte1 % 16, byte2 \div 16, byte2 % 16>>

\* self.program_counter += 2, done before the match
next_pc == program_counter + 2

\* the first arm of step's match that the instruction matches, in source order
match_arm(i) ==
    IF i = <<0, 0, 14, 0>> THEN "00E0"
    ELSE IF i[1] = 1 THEN "1NNN"
    ELSE IF i[1] = 2 THEN "2NNN"
    ELSE IF i = <<0, 0, 14, 14>> THEN "00EE"
    ELSE IF i[1] = 3 THEN "3XNN"
    ELSE IF i[1] = 4 THEN "4XNN"
    ELSE IF i[1] = 5 /\ i[4] = 0 THEN "5XY0"
    ELSE IF i[1] = 9 /\ i[4] = 0 THEN "9XY0"
    ELSE IF i[1] = 6 THEN "6XNN"
    ELSE IF i[1] = 7 THEN "7XNN"
    ELSE IF i[1] = 8 /\ i[4] = 0 THEN "8XY0"
    ELSE IF i[1] = 8 /\ i[4] = 1 THEN "8XY1"
    ELSE IF i[1] = 8 /\ i[4] = 2 THEN "8XY2"
    ELSE IF i[1] = 8 /\ i[4] = 3 THEN "8XY3"
    ELSE IF i[1] = 8 /\ i[4] = 4 THEN "8XY4"
    ELSE IF i[1] = 8 /\ i[4] = 5 THEN "8XY5"
    ELSE IF i[1] = 8 /\ i[4] = 6 THEN "8XY6"
    ELSE IF i[1] = 8 /\ i[4] = 7 THEN "8XY7"
    ELSE IF i[1] = 8 /\ i[4] = 14 THEN "8XYE"
    ELSE IF i[1] = 10 THEN "ANNN"
    ELSE IF i[1] = 11 THEN "BNNN"
    ELSE IF i[1] = 12 THEN "CXNN"
    ELSE IF i[1] = 13 THEN "DXYN"
    ELSE IF i[1] = 14 /\ i[3] = 9 /\ i[4] = 14 THEN "EX9E"
    ELSE IF i[1] = 14 /\ i[3] = 10 /\ i[4] = 1 THEN "EXA1"
    ELSE IF i[1] = 15 /\ i[3] = 0 /\ i[4] = 7 THEN "FX07"
    ELSE IF i[1] = 15 /\ i[3] = 1 /\ i[4] = 5 THEN "FX15"
    ELSE IF i[1] = 15 /\ i[3] = 1 /\ i[4] = 8 THEN "FX18"
    ELSE IF i[1] = 15 /\ i[3] = 1 /\ i[4] = 14 THEN "FX1E"
    ELSE IF i[1] = 15 /\ i[3] = 0 /\ i[4] = 10 THEN "FX0A"
    ELSE IF i[1] = 15 /\ i[3] = 2 /\ i[4] = 9 THEN "FX29"
    ELSE IF i[1] = 15 /\ i[3] = 3 /\ i[4] = 3 THEN "FX33"
    ELSE IF i[1] = 15 /\ i[3] = 5 /\ i[4] = 5 THEN "FX55"
    ELSE IF i[1] = 15 /\ i[3] = 6 /\ i[4] = 5 THEN "FX65"
    ELSE IF i[1] = 0 THEN "0NNN"
    ELSE "unimplemented"

\* step has fetched and decoded, and the instruction matches arm `a`
Fetched(a) ==
    /\ CanFetch
    /\ match_arm(Decode) = a
    /\ instruction' = Decode
    /\ fresh' = FALSE
    /\ frame' = after_step(frame)
    /\ UNCHANGED <<ticks, loads>>

\* step when pc or pc + 1 is outside memory: the indexing panics
StepFetchPanic ==
    /\ panic = "none"
    /\ program_loaded
    /\ host_may_step
    /\ program_counter + 1 >= MEMORY_SIZE
    /\ panic' = "IndexOutOfBounds"
    /\ fresh' = FALSE
    /\ frame' = after_step(frame)
    /\ UNCHANGED <<program_counter, memory, registers, needs_redraw,
                   index_register, delay_timer, sound_timer, display,
                   keyboard, stack, instruction, ticks, loads>>

\* ------------------------------------------------------------ step: arms
\* clear_screen
clear_screen(d) == [i \in DOMAIN d |-> FALSE]

\* 00E0 clearing the display without marking it dirty
Op00E0_keeps_flag ==
    /\ Fetched("00E0")
    /\ display' = clear_screen(display)
    /\ program_counter' = next_pc
    /\ UNCHANGED <<memory, registers, needs_redraw, index_register,
                   delay_timer, sound_timer, keyboard, stack, panic>>

Op00E0 ==
    /\ Fetched("00E0")
    /\ display' = clear_screen(display)
    /\ needs_redraw' = TRUE
    /\ program_counter' = next_pc
    /\ UNCHANGED <<memory, registers, index_register, delay_timer,
                   sound_timer, keyboard, stack, panic>>

\* 1NNN with the increment done before the match leaking into the target
Op1NNN_keeps_increment ==
    /\ Fetched("1NNN")
    /\ program_counter' = combine_nibbles(Decode[2], Decode[3], Decode[4]) + 2
    /\ UNCHANGED <<memory, registers, needs_redraw, index_register,
                   delay_timer, sound_timer, display, keyboard, stack, panic>>

Op1NNN ==
    /\ Fetched("1NNN")
    /\ program_counter' = combine_nibbles(Decode[2], Decode[3], Decode[4])
    /\ UNCHANGED <<memory, registers, needs_redraw, index_register,
                   delay_timer, sound_timer, display, keyboard, stack, panic>>

\* 2NNN pushing the address of the call itself instead of the advanced pc
Op2NNN_pushes_call_site ==
    /\ Fetched("2NNN")
    /\ stack' = Append(stack, program_counter)
    /\ program_counter' = combine_nibbles(Decode[2], Decode[3], Decode[4])
    /\ UNCHANGED <<memory, registers, needs_redraw, index_register,
                   delay_timer, sound_timer, display, keyboard, panic>>

Op2NNN ==
    /\ Fetched("2NNN")
    /\ stack' = Append(stack, next_pc)
    /\ program_counter' = combine_nibbles(Decode[2], Decode[3], Decode[4])
    /\ UNCHANGED <<memory, registers, needs_redraw, index_register,
                   delay_timer, sound_timer, display, keyboard, panic>>

\* 00EE with the empty stack ignored: pop().unwrap_or(pc) instead of expect
Op00EE_ignores_empty_stack ==
    /\ Fetched("00EE")
    /\ IF stack = <<>>
       THEN /\ program_counter' = next_pc
            /\ UNCHANGED <<stack, panic>>
       ELSE /\ program_counter' = stack[Len(stack)]
            /\ stack' = SubSeq(stack, 1, Len(stack) - 1)
            /\ UNCHANGED panic
    /\ UNCHANGED <<memory, registers, needs_redraw, index_register,
                   delay_timer, sound_timer, display, keyboard>>

\* stack.pop().expect(..): panics on an empty stack
Op00EE ==
    /\ Fetched("00EE")
    /\ IF stack = <<>>
       THEN /\ panic' = "StackUnderflow"
            /\ program_counter' = next_pc
            /\ UNCHANGED stack
       ELSE /\ program_counter' = stack[Len(stack)]
            /\ stack' = SubSeq(stack, 1, Len(stack) - 1)
            /\ UNCHANGED panic
    /\ UNCHANGED <<memory, registers, needs_redraw, index_register,
                   delay_timer, sound_timer, display, keyboard>>

\* the pc after a conditional skip
skip_if(cond) == IF cond THEN next_pc + 2 ELSE next_pc

Op3XNN ==
    /\ Fetched("3XNN")
    /\ program_counter' = skip_if(registers[Decode[2]] = byte2)
    /\ UNCHANGED <<memory, registers, needs_redraw, index_register,
                   delay_timer, sound_timer, display, keyboard, stack, panic>>

Op4XNN ==
    /\ Fetched("4XNN")
    /\ program_counter' = skip_if(registers[Decode[2]] # byte2)
    /\ UNCHANGED <<memory, registers, needs_redraw, index_register,
                   delay_timer, sound_timer, display, keyboard, stack, panic>>

Op5XY0 ==
    /\ Fetched("5XY0")
    /\ program_counter' = skip_if(registers[Decode[2]] = registers[Decode[3]])
    /\ UNCHANGED <<memory, registers, needs_redraw, index_register,
                   delay_timer, sound_timer, display, keyboard, stack, panic>>

Op9XY0 ==
    /\ Fetched("9XY0")
    /\ program_counter' = skip_if(registers[Decode[2]] # registers[Decode[3]])
    /\ UNCHANGED <<memory, registers, needs_redraw, index_register,
                   delay_timer, sound_timer, display, keyboard, stack, panic>>

\* an arm that only writes registers and falls through to the next instruction
RegisterArm(a, regs) ==
    /\ Fetched(a)
    /\ registers' = regs
    /\ program_counter' = next_pc
    /\ UNCHANGED <<memory, needs_redraw, index_register, delay_timer,
                   sound_timer, display, keyboard, stack, panic>>

Op6XNN ==
    RegisterArm("6XNN", [registers EXCEPT ![Decode[2]] = byte2])

Op7XNN ==
    RegisterArm("7XNN",
        [registers EXCEPT ![Decode[2]] = wrapping_add(registers[Decode[2]], byte2)])

Op8XY0 ==
    RegisterArm("8XY0", [registers EXCEPT ![Decode[2]] = registers[Decode[3]]])

Op8XY1 ==
    RegisterArm("8XY1",
        [registers EXCEPT ![Decode[2]] = bitor(registers[Decode[2]], registers[Decode[3]])])

Op8XY2 ==
    RegisterArm("8XY2",
        [registers EXCEPT ![Decode[2]] = bitand(registers[Decode[2]], registers[Decode[3]])])

Op8XY3 ==
    RegisterArm("8XY3",
        [registers EXCEPT ![Decode[2]] = bitxor(registers[Decode[2]], registers[Decode[3]])])

\* 8XY4: the flag is written first, then reg1
add_registers(regs, reg1, reg2) ==
    LET r == overflowing_add(regs[reg1], regs[reg2])
        flagged == [regs EXCEPT ![15] = IF r[2] THEN 1 ELSE 0]
    IN  [flagged EXCEPT ![reg1] = r[1]]

Op8XY4 ==
    RegisterArm("8XY4", add_registers(registers, Decode[2], Decode[3]))

\* 8XY5: the flag is 1 when overflowing_sub reports an underflow
sub_registers(regs, reg1, reg2) ==
    LET r == overflowing_sub(regs[reg1], regs[reg2])
        flagged == [regs EXCEPT ![15] = IF r[2] THEN 1 ELSE 0]
    IN  [flagged EXCEPT ![reg1] = r[1]]

Op8XY5 ==
    RegisterArm("8XY5", sub_registers(registers, Decode[2], Decode[3]))

\* 8XY6: VF = reg1 & 1, then reg1 >>= 1
shift_right(regs, reg1) ==
    LET flagged == [regs EXCEPT ![15] = bitand(regs[reg1], 1)]
    IN  [flagged EXCEPT ![reg1] = flagged[reg1] \div 2]

Op8XY6 ==
    RegisterArm("8XY6", shift_right(registers, Decode[2]))

\* 8XY7: reg1 = reg2 - reg1, flag as in 8XY5
subn_registers(regs, reg1, reg2) ==
    LET r == overflowing_sub(regs[reg2], regs[reg1])
        flagged == [regs EXCEPT ![15] = IF r[2] THEN 1 ELSE 0]
    IN  [flagged EXCEPT ![reg1] = r[1]]

Op8XY7 ==
    RegisterArm("8XY7", subn_registers(registers, Decode[2], Decode[3]))

\* 8XYE: VF = reg1 & (1 << 7), then reg1 <<= 1
shift_left(regs, reg1) ==
    LET flagged == [regs EXCEPT ![15] = bitand(regs[reg1], 128)]
    IN  [flagged EXCEPT ![reg1] = (flagged[reg1] * 2) % 256]

Op8XYE ==
    RegisterArm("8XYE", shift_left(registers, Decode[2]))

OpANNN ==
    /\ Fetched("ANNN")
    /\ index_register' = combine_nibbles(Decode[2], Decode[3], Decode[4])
    /\ program_counter' = next_pc
    /\ UNCHANGED <<memory, registers, needs_redraw, delay_timer, sound_timer,
                   display, keyboard, stack, panic>>

OpBNNN ==
    /\ Fetched("BNNN")
    /\ program_counter' =
          combine_nibbles(Decode[2], Decode[3], Decode[4]) + registers[0]
    /\ UNCHANGED <<memory, registers, needs_redraw, index_register,
                   delay_timer, sound_timer, display, keyboard, stack, panic>>

\* CXNN: rand::random::<u8>() is any byte
OpCXNN ==
    \E rand_value \in 0..255 :
        RegisterArm("CXNN", [registers EXCEPT ![Decode[2]] = bitand(rand_value, byte2)])

\* DXYN, the inner loop over sprite_pos for one row, from sprite_pos on, with
\* the display and the `flipped` flag so far. The result says whether the
\* display index left the array (a panic).
RECURSIVE draw_row(_, _, _, _, _, _, _)
draw_row(disp, flipped, x_pos, y_pos, row_num, pixels, sprite_pos) ==
    IF sprite_pos >= 8 \/ x_pos >= SCREEN_WIDTH
    THEN [display |-> disp, flipped |-> flipped, panicked |-> FALSE]
    ELSE LET sprite_pixel == bitand(pixels, 128 \div (2 ^ sprite_pos)) # 0
             index == (x_pos + sprite_pos) + (y_pos + row_num) * SCREEN_WIDTH
         IN  IF index >= SCREEN_WIDTH * SCREEN_HEIGHT
             THEN [display |-> disp, flipped |-> flipped, panicked |-> TRUE]
             ELSE draw_row([disp EXCEPT ![index] = (disp[index] # sprite_pixel)],
                           flipped \/ (disp[index] # sprite_pixel),
                           x_pos, y_pos, row_num, pixels, sprite_pos + 1)

\* DXYN, the outer loop over row_num, from row_num on. Reading the sprite row
\* panics when index_register + row_num is outside memory.
RECURSIVE draw_loop(_, _, _, _, _, _)
draw_loop(disp, flipped, x_pos, y_pos, num_bytes, row_num) ==
    IF row_num >= num_bytes
    THEN [display |-> disp, flipped |-> flipped, panicked |-> FALSE]
    ELSE IF index_register + row_num >= MEMORY_SIZE
    THEN [display |-> disp, flipped |-> flipped, panicked |-> TRUE]
    ELSE IF y_pos >= SCREEN_HEIGHT
    THEN [display |-> disp, flipped |-> flipped, panicked |-> FALSE]
    ELSE LET row == draw_row(disp, flipped, x_pos, y_pos, row_num,
                             memory[index_register + row_num], 0)
         IN  IF row.panicked
             THEN row
             ELSE draw_loop(row.display, row.flipped, x_pos, y_pos,
                            num_bytes, row_num + 1)

\* the whole draw on display d: start position taken modulo the screen size
draw_sprite(d, reg1, reg2, num_bytes) ==
    draw_loop(d, FALSE, registers[reg1] % SCREEN_WIDTH,
              registers[reg2] % SCREEN_HEIGHT, num_bytes, 0)

OpDXYN ==
    /\ Fetched("DXYN")
    /\ needs_redraw' = TRUE
    /\ LET r == draw_sprite(display, Decode[2], Decode[3], Decode[4])
       IN  /\ display' = r.display
           /\ IF r.panicked
              THEN /\ panic' = "IndexOutOfBounds"
                   /\ UNCHANGED registers
              ELSE /\ registers' = [registers EXCEPT ![15] = IF r.flipped THEN 1 ELSE 0]
                   /\ UNCHANGED panic
    /\ program_counter' = next_pc
    /\ UNCHANGED <<memory, index_register, delay_timer, sound_timer,
                   keyboard, stack>>

\* EX9E / EXA1: keyboard[registers[reg]] panics when the register holds > 15
key_skip(reg, want) ==
    IF registers[reg] > 15
    THEN /\ panic' = "IndexOutOfBounds"
         /\ program_counter' = next_pc
    ELSE /\ program_counter' = skip_if(keyboard[registers[reg]] = want)
         /\ UNCHANGED panic

OpEX9E ==
    /\ Fetched("EX9E")
    /\ key_skip(Decode[2], TRUE)
    /\ UNCHANGED <<memory, registers, needs_redraw, index_register,
                   delay_timer, sound_timer, display, keyboard, stack>>

OpEXA1 ==
    /\ Fetched("EXA1")
    /\ key_skip(Decode[2], FALSE)
    /\ UNCHANGED <<memory, registers, needs_redraw, index_register,
                   delay_timer, sound_timer, display, keyboard, stack>>

OpFX07 ==
    RegisterArm("FX07", [registers EXCEPT ![Decode[2]] = delay_timer])

OpFX15 ==
    /\ Fetched("FX15")
    /\ delay_timer' = registers[Decode[2]]
    /\ program_counter' = next_pc
    /\ UNCHANGED <<memory, registers, needs_redraw, index_register,
                   sound_timer, display, keyboard, stack, panic>>

OpFX18 ==
    /\ Fetched("FX18")
    /\ sound_timer' = registers[Decode[2]]
    /\ program_counter' = next_pc
    /\ UNCHANGED <<memory, registers, needs_redraw, index_register,
                   delay_timer, display, keyboard, stack, panic>>

\* u16::wrapping_add
OpFX1E ==
    /\ Fetched("FX1E")
    /\ index_register' = (index_register + registers[Decode[2]]) % 65536
    /\ program_counter' = next_pc
    /\ UNCHANGED <<memory, registers, needs_redraw, delay_timer, sound_timer,
                   display, keyboard, stack, panic>>

\* the keys the loop of FX0A finds pressed
pressed_keys == {i \in 0..15 : keyboard[i]}

\* FX0A without the rewind: with no key pressed the wait is skipped
OpFX0A_no_rewind ==
    /\ Fetched("FX0A")
    /\ program_counter' = next_pc
    /\ IF pressed_keys = {}
       THEN UNCHANGED registers
       ELSE registers' = [registers EXCEPT ![Decode[2]] =
                             CHOOSE i \in pressed_keys : \A j \in pressed_keys : j <= i]
    /\ UNCHANGED <<memory, needs_redraw, index_register, delay_timer,
                   sound_timer, display, keyboard, stack, panic>>

\* FX0A: every pressed key is written to the register in index order, so the
\* highest one stays; with none pressed the pc is moved back onto FX0A
OpFX0A ==
    /\ Fetched("FX0A")
    /\ IF pressed_keys = {}
       THEN /\ program_counter' = next_pc - 2
            /\ UNCHANGED registers
       ELSE /\ program_counter' = next_pc
            /\ registers' = [registers EXCEPT ![Decode[2]] =
                                CHOOSE i \in pressed_keys : \A j \in pressed_keys : j <= i]
    /\ UNCHANGED <<memory, needs_redraw, index_register, delay_timer,
                   sound_timer, display, keyboard, stack, panic>>

OpFX29 ==
    /\ Fetched("FX29")
    /\ index_register' = registers[Decode[2]] * 5
    /\ program_counter' = next_pc
    /\ UNCHANGED <<memory, registers, needs_redraw, delay_timer, sound_timer,
                   display, keyboard, stack, panic>>

\* memory after `memory[addr] = value`, or unchanged when the write panics
store(mem, addr, value) ==
    IF addr < MEMORY_SIZE THEN [mem EXCEPT ![addr] = value] ELSE mem

\* FX33: three writes in order; the first one outside memory panics
OpFX33 ==
    /\ Fetched("FX33")
    /\ LET num == registers[Decode[2]]
           m1 == store(memory, index_register, num \div 100)
           m2 == store(m1, index_register + 1, (num \div 10) % 10)
           m3 == store(m2, index_register + 2, num % 10)
       IN  memory' = m3
    /\ panic' = IF index_register + 2 >= MEMORY_SIZE THEN "IndexOutOfBounds" ELSE "none"
    /\ program_counter' = next_pc
    /\ UNCHANGED <<registers, needs_redraw, index_register, delay_timer,
                   sound_timer, display, keyboard, stack>>

\* FX55: registers 0..=x to memory[I..], stopping at the first index outside
OpFX55 ==
    /\ Fetched("FX55")
    /\ memory' = [a \in 0..(MEMORY_SIZE - 1) |->
                    IF a >= index_register /\ a <= index_register + Decode[2]
                    THEN registers[a - index_register]
                    ELSE memory[a]]
    /\ panic' = IF index_register + Decode[2] >= MEMORY_SIZE
                THEN "IndexOutOfBounds" ELSE "none"
    /\ program_counter' = next_pc
    /\ UNCHANGED <<registers, needs_redraw, index_register, delay_timer,
                   sound_timer, display, keyboard, stack>>

\* FX65 with the range 0..x instead of 0..=x: register x is not loaded
OpFX65_exclusive ==
    /\ Fetched("FX65")
    /\ registers' = [r \in 0..15 |->
                       IF r < Decode[2] /\ index_register + r < MEMORY_SIZE
                       THEN memory[index_register + r]
                       ELSE registers[r]]
    /\ panic' = IF index_register + Decode[2] - 1 >= MEMORY_SIZE
                THEN "IndexOutOfBounds" ELSE "none"
    /\ program_counter' = next_pc
    /\ UNCHANGED <<memory, needs_redraw, index_register, delay_timer,
                   sound_timer, display, keyboard, stack>>

\* FX65: memory[I..] to registers 0..=x, stopping at the first index outside
OpFX65 ==
    /\ Fetched("FX65")
    /\ registers' = [r \in 0..15 |->
                       IF r <= Decode[2] /\ index_register + r < MEMORY_SIZE
                       THEN memory[index_register + r]
                       ELSE registers[r]]
    /\ panic' = IF index_register + Decode[2] >= MEMORY_SIZE
                THEN "IndexOutOfBounds" ELSE "none"
    /\ program_counter' = next_pc
    /\ UNCHANGED <<memory, needs_redraw, index_register, delay_timer,
                   sound_timer, display, keyboard, stack>>

\* the (0x0, _, _, _) arm marking the display dirty, as 00E0 does
Op0NNN_sets_dirty ==
    /\ Fetched("0NNN")
    /\ program_counter' = next_pc
    /\ needs_redraw' = TRUE
    /\ UNCHANGED <<memory, registers, index_register,
                   delay_timer, sound_timer, display, keyboard, stack, panic>>

\* (0x0, _, _, _): do nothing
Op0NNN ==
    /\ Fetched("0NNN")
    /\ program_counter' = next_pc
    /\ UNCHANGED <<memory, registers, needs_redraw, index_register,
                   delay_timer, sound_timer, display, keyboard, stack, panic>>

\* the fallthrough arm doing nothing, like the (0x0, _, _, _) arm
OpUnimplemented_ignored ==
    /\ Fetched("unimplemented")
    /\ program_counter' = next_pc
    /\ UNCHANGED <<memory, registers, needs_redraw, index_register,
                   delay_timer, sound_timer, display, keyboard, stack, panic>>

\* (_, _, _, _): unimplemented!(..) with the instruction in the message
OpUnimplemented ==
    /\ Fetched("unimplemented")
    /\ panic' = "UnimplementedOpcode"
    /\ program_counter' = next_pc
    /\ UNCHANGED <<memory, registers, needs_redraw, index_register,
                   delay_timer, sound_timer, display, keyboard, stack>>

\* ------------------------------------------------------------ programs
\* The programs the host hands to load (main.rs reads them from a file).
\* one of every instruction; ends by jumping to 0xFFF, where the fetch leaves memory
RomAll ==
    << 0, 224,  96,   5,  97, 250, 113,   5, 130,   0, 130,  17,
       130,   2, 130,  19, 130,  20, 130,   5, 130,   6, 130,   7,
       130,  14,  48,   5, 255, 255,  64,   5,  80,  16, 144,  16,
       255, 255,  34,  96, 162,  90,  99,   0, 208,  50, 101,   1,
       229, 158,   1,  35, 229, 161,   0,   0, 245,  21, 103,   2,
       247,  24, 246,   7, 246,  30, 240,  51, 242,  85, 242, 101,
       240,  41, 195,   1, 244,  10,  96,   0, 178,  82,  31, 255,
         0,   0,   0,   0,   0,   0, 240, 144,   0,   0,   0,   0,
         0, 238 >>

\* two calls of a subroutine at 0x208 that calls 0x20C, then a return too many
RomCalls ==
    << 34,   8,  34,   8,   0, 238,   0,   0,  34,  12,   0, 238,
         0, 238 >>

\* a return as the first instruction
RomRet ==
    << 0, 238 >>

\* EX9E with 16 in the register
RomKey ==
    << 96,  16, 224, 158 >>

\* FX33 with the index register at 0xFFE
RomBcd ==
    << 175, 254, 240,  51 >>

\* V0 = 16, FX29 (I = 0x50), FX33 into the font region, then jumps forward
\* (0x206 to 0x20C), backward (0x20C to 0x208) and onto itself (0x20A)
RomFont ==
    << 96,  16, 240,  41, 240,  51,  18,  12,   0,   0,  18,  10,
       18,   8 >>

\* a program of exactly the capacity: 0xFF throughout, 0x01 in the last cell
RomMax == [i \in 1..(MEMORY_SIZE - PROGRAM_START) |->
              IF i = MEMORY_SIZE - PROGRAM_START THEN 1 ELSE 255]

\* one byte more than the capacity
RomTooLarge == [i \in 1..(MEMORY_SIZE - PROGRAM_START + 1) |-> 255]

Roms == {RomAll, RomCalls, RomRet, RomKey, RomBcd, RomFont, RomMax, RomTooLarge}

\* the key numbers the host passes; 16 and 255 are outside the keypad
KeyInputs == {1, 15, 16, 255}

\* ------------------------------------------------------------ the host
\* the host loads right after new (main) and right after reset (F5)
HostLoad ==
    /\ fresh
    /\ \E data \in Roms : load(data)

HostPress == \E key_num \in KeyInputs : press_key(key_num)

HostUnpress == \E key_num \in KeyInputs : unpress_key(key_num)

Next ==
    \/ HostLoad
    \/ reset
    \/ tick_timers
    \/ HostPress
    \/ HostUnpress
    \/ was_redrawn
    \/ StepFetchPanic
    \/ Op00E0 \/ Op1NNN \/ Op2NNN \/ Op00EE
    \/ Op3XNN \/ Op4XNN \/ Op5XY0 \/ Op9XY0
    \/ Op6XNN \/ Op7XNN
    \/ Op8XY0 \/ Op8XY1 \/ Op8XY2 \/ Op8XY3 \/ Op8XY4
    \/ Op8XY5 \/ Op8XY6 \/ Op8XY7 \/ Op8XYE
    \/ OpANNN \/ OpBNNN \/ OpCXNN \/ OpDXYN
    \/ OpEX9E \/ OpEXA1
    \/ OpFX07 \/ OpFX15 \/ OpFX18 \/ OpFX1E \/ OpFX0A
    \/ OpFX29 \/ OpFX33 \/ OpFX55 \/ OpFX65
    \/ Op0NNN \/ OpUnimplemented

Spec == Init /\ [][Next]_vars

\* ------------------------------------------------------------ loading
\* Programs loaded over one another, to see load on a memory that already
\* holds a program.
AnyLoad ==
    /\ loads < MaxLoads
    /\ \E data \in Roms : load(data)

NextLoad ==
    \/ AnyLoad
    \/ reset

SpecLoad == Init /\ [][NextLoad]_vars

\* ------------------------------------------------------------ arithmetic
\* the u8 values and the register numbers the arithmetic programs use
AluValues == {0, 1, 5, 10, 250, 255}
AluRegisters == {0, 7, 15}

\* the last nibble k of 8XYk: add, subtract, shift right, subtract the other
\* way, shift left
AluOps == {4, 5, 6, 7, 14}

\* 6X a ; 6Y b ; 8XYk
AluRom(x, y, a, b, k) == <<96 + x, a, 96 + y, b, 128 + x, 16 * y + k>>

AluRoms ==
    {AluRom(x, y, a, b, k) :
        x \in AluRegisters, y \in AluRegisters,
        a \in AluValues, b \in AluValues, k \in AluOps}

AluLoad ==
    /\ fresh
    /\ \E data \in AluRoms : load(data)

NextAlu ==
    \/ AluLoad
    \/ Op6XNN
    \/ Op8XY4
    \/ Op8XY5
    \/ Op8XY6
    \/ Op8XY7
    \/ Op8XYE

SpecAlu == Init /\ [][NextAlu]_vars

\* ------------------------------------------------------------ drawing
\* sprite rows: a full block, and a frame with empty rows in it
SpriteRows == {[r \in 1..15 |-> 255],
               [r \in 1..15 |-> IF r % 2 = 1 THEN 129 ELSE 0]}
DrawXs == {0, 60, 63, 70}
DrawYs == {0, 20, 31, 33}
DrawHeights == {1, 2, 15}

\* A20A ; 60 x ; 61 y ; D01n ; D01n ; the n sprite rows at 0x20A
DrawRom(x, y, n, rows) ==
    <<162, 10, 96, x, 97, y, 208, 16 + n, 208, 16 + n>> \o SubSeq(rows, 1, n)

DrawRoms ==
    {DrawRom(x, y, n, rows) :
        x \in DrawXs, y \in DrawYs, n \in DrawHeights, rows \in SpriteRows}

DrawLoad ==
    /\ fresh
    /\ \E data \in DrawRoms : load(data)

NextDraw ==
    \/ DrawLoad
    \/ OpANNN
    \/ Op6XNN
    \/ OpDXYN

SpecDraw == Init /\ [][NextDraw]_vars

\* ------------------------------------------------------------ decoding
\* One instruction at 0x200, then a jump onto itself at 0x202 and another at
\* 0x204, where a skip lands.
DecodeRom(b1, b2) == <<b1, b2, 18, 2, 18, 4>>

\* the families of which only some patterns are defined, with every second byte
PartialFamilies == {0, 5, 8, 9, 14, 15}
\* the families defined for every second byte, with a few second bytes
TotalFamilies == {3, 4, 6, 7, 10, 12, 13}
FewBytes == {0, 1, 255}
\* 1NNN, 2NNN and BNNN, with targets inside the program
JumpFamilies == {1, 2, 11}
JumpTargets == {2, 4}

DecodeRoms ==
    {DecodeRom(b1, b2) :
        b1 \in {0} \cup {16 * h + 1 : h \in PartialFamilies}, b2 \in 0..255}
    \cup {DecodeRom(16 * h + 1, b2) : h \in TotalFamilies, b2 \in FewBytes}
    \cup {DecodeRom(16 * h + 2, t) : h \in JumpFamilies, t \in JumpTargets}

DecodeLoad ==
    /\ fresh
    /\ \E data \in DecodeRoms : load(data)

NextDecode ==
    \/ DecodeLoad
    \/ Op00E0 \/ Op1NNN \/ Op2NNN \/ Op00EE
    \/ Op3XNN \/ Op4XNN \/ Op5XY0 \/ Op9XY0
    \/ Op6XNN \/ Op7XNN
    \/ Op8XY0 \/ Op8XY1 \/ Op8XY2 \/ Op8XY3 \/ Op8XY4
    \/ Op8XY5 \/ Op8XY6 \/ Op8XY7 \/ Op8XYE
    \/ OpANNN \/ OpBNNN \/ OpCXNN \/ OpDXYN
    \/ OpEX9E \/ OpEXA1
    \/ OpFX07 \/ OpFX15 \/ OpFX18 \/ OpFX1E \/ OpFX0A
    \/ OpFX29 \/ OpFX33 \/ OpFX55 \/ OpFX65
    \/ Op0NNN \/ OpUnimplemented

SpecDecode == Init /\ [][NextDecode]_vars

\* ------------------------------------------------------------ frames
\* The host as main.rs runs it: new, load, then one AboutToWait event after
\* another, each running the loop over step and tick_timers.
\* F007 1200: reads the delay timer for ever
RomReadTimer ==
    << 240,   7,  18,   0 >>

\* 60FF F015 F018 1206: sets both timers to 255, then jumps onto itself
RomSetTimers ==
    << 96, 255, 240,  21, 240,  24,  18,   6 >>

FrameRoms == {RomReadTimer, RomSetTimers}

InitFrame ==
    /\ Constructed
    /\ frame = BetweenFrames

FrameLoad ==
    /\ fresh
    /\ \E data \in FrameRoms : load(data)

\* Event::AboutToWait arrives: the handler enters its loop
AboutToWait ==
    /\ panic = "none"
    /\ program_loaded
    /\ frame.at = "idle"
    /\ frame' = [at |-> "step", steps |-> 0, ticks |-> 0]
    /\ UNCHANGED <<program_counter, memory, registers, needs_redraw,
                   index_register, delay_timer, sound_timer, display,
                   keyboard, stack, instruction, panic, fresh, ticks, loads>>

NextFrame ==
    \/ FrameLoad
    \/ AboutToWait
    \/ tick_timers
    \/ Op1NNN
    \/ Op6XNN
    \/ OpFX07
    \/ OpFX15
    \/ OpFX18

SpecFrame == InitFrame /\ [][NextFrame]_vars

\* ------------------------------------------------------------ store and load
\* the index register values, the last register X and the register contents
\* the store/load programs use; 0xFF0 + 15 and 0xFFF + 0 are the last cell
StoreAddresses == {80, 768, 4080, 4095}
StoreLasts == {0, 1, 15}
StoreValues == {0, 7, 255}

\* ANNN ; 60 a ; 61 b ; 6F c ; FX55 ; 7001 ; 7101 ; 7F01 ; FX65 ; 1212
StoreRom(nnn, x, a, b, c) ==
    << 160 + (nnn \div 256), nnn % 256, 96, a, 97, b, 111, c,
       240 + x, 85, 112, 1, 113, 1, 127, 1, 240 + x, 101, 18, 18 >>

StoreRoms ==
    {StoreRom(nnn, x, a, b, 9) :
        nnn \in StoreAddresses, x \in StoreLasts,
        a \in StoreValues, b \in StoreValues}

StoreLoad ==
    /\ fresh
    /\ \E data \in StoreRoms : load(data)

NextStore ==
    \/ StoreLoad
    \/ OpANNN
    \/ Op6XNN
    \/ Op7XNN
    \/ OpFX55
    \/ OpFX65
    \/ Op1NNN

SpecStore == Init /\ [][NextStore]_vars

\* ------------------------------------------------------------ claims
\* C1: load(bytes) succeeds iff len(bytes) <= 3584. When it succeeds,
\* memory[0x200 + i] = bytes[i] for every i < len and every other cell is as
\* before; when len(bytes) > 3584 it fails with the capacity error and memory
\* is byte for byte as before the call.
C1_LoadContract ==
    [][\A data \in Roms :
          load(data) =>
             IF Len(data) <= 3584
             THEN /\ panic' = "none"
                  /\ \A a \in 0..4095 :
                        memory'[a] = IF a >= 512 /\ a - 512 < Len(data)
                                     THEN data[a - 512 + 1]
                                     ELSE memory[a]
             ELSE /\ panic' = "CapacityError"
                  /\ memory' = memory]_vars

\* C1 witness: the program of exactly 3584 bytes was loaded (its last byte is
\* in the last cell), and a later load of 3585 bytes was refused
C1_Witness ==
    /\ panic = "CapacityError"
    /\ memory[4095] = 1
    /\ memory[512] = 255

\* C2: step either executes one instruction or fails with StackUnderflow or
\* UnimplementedOpcode, never in another way: the fetch at pc and pc + 1, the
\* sprite reads, the FX33/FX55/FX65 accesses, the keypad lookups and the pc
\* arithmetic stay in range. (CapacityError is load's failure, not step's.)
C2_StepFailsOnlyAsDocumented ==
    /\ panic \in {"none", "CapacityError", "StackUnderflow", "UnimplementedOpcode"}
    /\ program_counter \in 0..65535

\* C3: 00EE executed with an empty call stack fails with StackUnderflow and
\* leaves the stack empty, and nothing runs after that failure: the return
\* is neither skipped nor taken as a jump.
C3_ReturnOnEmptyStack ==
    [][/\ (Op00EE /\ stack = <<>>) => (panic' = "StackUnderflow" /\ stack' = <<>>)
       /\ panic # "StackUnderflow"]_vars

\* C3 witness: the return was the first instruction of a fresh VM
C3_Witness ==
    /\ panic = "StackUnderflow"
    /\ instruction = <<0, 0, 14, 14>>
    /\ program_counter = 514
    /\ registers = ZeroRegisters

\* C4: a call 2NNN fetched at P sets pc = NNN and pushes P + 2 on top of the
\* stack as it was; a return 00EE on a non-empty stack sets pc to the top
\* entry and removes exactly that entry. So the return matching a call finds
\* P + 2 on top, resumes at P + 2 and leaves the stack as before the call.
C4_CallReturnRoundTrip ==
    [][/\ Op2NNN =>
            /\ program_counter' =
                  (memory[program_counter] % 16) * 256 + memory[program_counter + 1]
            /\ stack' = stack \o <<program_counter + 2>>
       /\ (Op00EE /\ stack # <<>>) =>
            /\ program_counter' = stack[Len(stack)]
            /\ stack' \o <<stack[Len(stack)]>> = stack
            /\ panic' = "none"]_vars

\* C4 witness: in RomCalls the call at 0x200 has returned to 0x202 after the
\* nested call and return inside the subroutine, and the stack is empty again
C4_Witness ==
    /\ program_counter = 514
    /\ instruction = <<0, 0, 14, 14>>
    /\ stack = <<>>
    /\ panic = "none"
    /\ memory[512] = 34 /\ memory[513] = 8

\* C5: after 8XY4, for every X and Y (X = F and Y = F included), with
\* a = VX and b = VY before the step: VF is 1 if a + b > 255 and 0 otherwise,
\* and for X # F the register VX holds (a + b) mod 256.
C5_AddFlag ==
    [][Op8XY4 =>
          LET X == memory[program_counter] % 16
              Y == memory[program_counter + 1] \div 16
              a == registers[X]
              b == registers[Y]
          IN  /\ registers'[15] = (IF a + b > 255 THEN 1 ELSE 0)
              /\ X # 15 => registers'[X] = (a + b) % 256]_vars

\* C6: after 8XY5 (a = VX, b = VY) and after 8XY7 (a = VY, b = VX), VX holds
\* (a - b) mod 256 and VF is 1 if a >= b (no borrow) and 0 if a < b.
C6_SubtractBorrow ==
    [][/\ Op8XY5 =>
            LET X == memory[program_counter] % 16
                Y == memory[program_counter + 1] \div 16
                a == registers[X]
                b == registers[Y]
            IN  /\ registers'[15] = (IF a >= b THEN 1 ELSE 0)
                /\ X # 15 => registers'[X] = (a - b + 256) % 256
       /\ Op8XY7 =>
            LET X == memory[program_counter] % 16
                Y == memory[program_counter + 1] \div 16
                a == registers[Y]
                b == registers[X]
            IN  /\ registers'[15] = (IF a >= b THEN 1 ELSE 0)
                /\ X # 15 => registers'[X] = (a - b + 256) % 256]_vars

\* a draw program is in memory: A20A 60xx 61yy D01n D01n
DrawProgram ==
    /\ loads > 0
    /\ memory[512] = 162 /\ memory[513] = 10
    /\ memory[518] = 208 /\ memory[519] \div 16 = 1
    /\ memory[520] = 208 /\ memory[521] = memory[519]

AllClear == \A i \in 0..2047 : ~display[i]

\* C7: drawing the same non-empty sprite twice at the same coordinates on an
\* all-clear display leaves the display all-clear after the second draw, for
\* every start coordinate and every height 1..15: both draws run, and after
\* the second (pc = 0x20A) no cell is set.
C7_DrawTwiceClears ==
    (DrawProgram /\ (program_counter = 522 \/ panic # "none"))
        => (panic = "none" /\ AllClear)

\* C8: after a DXYN step VF is 1 iff some cell went from set to clear in that
\* draw: 0 after the first draw onto the all-clear display (pc = 0x208), 1
\* after the identical second draw (pc = 0x20A).
C8_CollisionFlag ==
    (DrawProgram /\ panic = "none") =>
        /\ program_counter = 520 => registers[15] = 0
        /\ program_counter = 522 => registers[15] = 1

\* C9: tick_timers sets each timer to max(timer - 1, 0) independently and
\* changes nothing else; both timers stay in 0..255; a timer that is 0 stays
\* 0 until FX15 (delay) or FX18 (sound) or a reset rewrites it.
C9_TimersSaturate ==
    [][/\ tick_timers =>
            /\ delay_timer' = (IF delay_timer - 1 > 0 THEN delay_timer - 1 ELSE 0)
            /\ sound_timer' = (IF sound_timer - 1 > 0 THEN sound_timer - 1 ELSE 0)
            /\ UNCHANGED <<program_counter, registers, memory, stack, display,
                           keyboard, index_register, needs_redraw>>
       /\ delay_timer' \in 0..255
       /\ sound_timer' \in 0..255
       /\ (delay_timer = 0 /\ delay_timer' # 0) => (OpFX15 \/ reset)
       /\ (sound_timer = 0 /\ sound_timer' # 0) => (OpFX18 \/ reset)]_vars

\* C9 witness: FX15 set the delay timer to 1, then FX18 set the sound timer
\* to 2, and two ticks since have taken the sound timer to 0; the second of
\* them found the delay timer at 0 already and left it there
C9_Witness ==
    /\ instruction = <<15, 7, 1, 8>>
    /\ registers[5] = 1 /\ registers[7] = 2
    /\ sound_timer = 0
    /\ delay_timer = 0

\* C10: right after construction and right after reset both timers are 0, as
\* are the 16 registers, the index register and the keypad; the call stack
\* is empty and pc = 0x200.
C10_FreshStateZeroed ==
    fresh =>
        /\ delay_timer = 0
        /\ sound_timer = 0
        /\ \A r \in 0..15 : registers[r] = 0
        /\ index_register = 0
        /\ \A k \in 0..15 : ~keyboard[k]
        /\ stack = <<>>
        /\ program_counter = 512

\* C11: right after construction and right after reset from any reachable
\* state (a program may have overwritten the font region through FX33/FX55,
\* a ROM may have been loaded), memory[0x50..=0x9F] is the 80-byte font table
\* and every other memory cell is 0.
C11_FontAfterNewOrReset ==
    fresh =>
        \A a \in 0..4095 :
            memory[a] = IF a >= 80 /\ a <= 159 THEN font[a - 79] ELSE 0

\* C11 witness: a reset has run (only reset leaves needs_redraw set with no
\* step taken since), the font region holds glyph 0 at its start and glyph F
\* at its end, and the program area is empty
C11_Witness ==
    /\ fresh
    /\ needs_redraw
    /\ memory[80] = 240 /\ memory[84] = 240
    /\ memory[155] = 240 /\ memory[159] = 128
    /\ memory[512] = 0

\* C12: reset from any reachable state gives memory, registers, index
\* register, pc, call stack, timers, keypad and framebuffer the values new
\* gives them (pc 0x200, font-only memory, timers 60, everything else zero or
\* empty), so reset followed by load is the state of new followed by load.
C12_ResetEqualsNew ==
    [][reset =>
          /\ program_counter' = 512
          /\ memory' = initialize_font([a \in 0..4095 |-> 0])
          /\ registers' = [r \in 0..15 |-> 0]
          /\ index_register' = 0
          /\ stack' = <<>>
          /\ delay_timer' = 60
          /\ sound_timer' = 60
          /\ keyboard' = [k \in 0..15 |-> FALSE]
          /\ display' = [i \in 0..2047 |-> FALSE]]_vars

\* C12 witness: the host's F5, reset followed by load: a program is loaded,
\* no step has run since, and needs_redraw is set, which with no step taken
\* only reset does
C12_Witness ==
    /\ ~fresh
    /\ needs_redraw
    /\ instruction = <<>>
    /\ loads = 1
    /\ memory[512] = 34
    /\ program_counter = 512 /\ stack = <<>> /\ keyboard = NoKeys
    /\ delay_timer = 60 /\ sound_timer = 60

\* C13: press_key(n) with n in 0..15 sets keypad flag n and unpress_key(n)
\* clears it, leaving the other 15 flags and all other VM state unchanged;
\* for n in 16..255 both calls return without error and change nothing.
C13_KeyFrame ==
    [][\A n \in KeyInputs :
          /\ press_key(n) =>
                /\ keyboard' = [k \in 0..15 |-> IF k = n THEN TRUE ELSE keyboard[k]]
                /\ n > 15 => keyboard' = keyboard
                /\ panic' = "none"
                /\ UNCHANGED <<program_counter, memory, registers, needs_redraw,
                               index_register, delay_timer, sound_timer,
                               display, stack>>
          /\ unpress_key(n) =>
                /\ keyboard' = [k \in 0..15 |-> IF k = n THEN FALSE ELSE keyboard[k]]
                /\ n > 15 => keyboard' = keyboard
                /\ panic' = "none"
                /\ UNCHANGED <<program_counter, memory, registers, needs_redraw,
                               index_register, delay_timer, sound_timer,
                               display, stack>>]_vars

\* C13 witness: FX0A of RomAll stored key 1 in V4, so key 1 was pressed with
\* key 15 up; since then key 15 was pressed and key 1 released, each leaving
\* the other flag alone
C13_Witness ==
    /\ instruction = <<15, 4, 0, 10>>
    /\ registers[4] = 1
    /\ ~keyboard[1]
    /\ keyboard[15]
    /\ \A k \in 0..14 : ~keyboard[k]
    /\ panic = "none"

\* C14: after one step on a jump 1NNN fetched at any address, pc is NNN
\* exactly (not NNN + 2, not an offset from the fetch address), and
\* registers, index register, stack, memory, timers, display and keypad are
\* unchanged.
C14_JumpOverwritesPc ==
    [][Op1NNN =>
          /\ program_counter' =
                (memory[program_counter] % 16) * 256 + memory[program_counter + 1]
          /\ panic' = "none"
          /\ UNCHANGED <<registers, index_register, stack, memory, delay_timer,
                         sound_timer, display, keyboard>>]_vars

\* C14 witness: in RomFont the forward jump at 0x206 went to 0x20C and the
\* backward jump 1208 fetched there has left pc at 0x208
C14_Witness ==
    /\ instruction = <<1, 2, 0, 8>>
    /\ program_counter = 520
    /\ memory[524] = 18 /\ memory[525] = 8
    /\ panic = "none"

\* the patterns C15 lists as matching no defined opcode
UndefinedPattern(i) ==
    \/ i[1] = 5 /\ i[4] # 0
    \/ i[1] = 9 /\ i[4] # 0
    \/ i[1] = 8 /\ i[4] \in {8, 9, 10, 11, 12, 13, 15}
    \/ i[1] = 14 /\ <<i[3], i[4]>> \notin {<<9, 14>>, <<10, 1>>}
    \/ i[1] = 15 /\ <<i[3], i[4]>> \notin
            {<<0, 7>>, <<0, 10>>, <<1, 5>>, <<1, 8>>, <<1, 14>>,
             <<2, 9>>, <<3, 3>>, <<5, 5>>, <<6, 5>>}

\* C15: every two-byte pattern that matches no defined opcode and whose high
\* nibble is not 0 (5XYN and 9XYN with N # 0, 8XYN with N in 8..D or F, EXNN
\* other than EX9E/EXA1, FXNN other than the nine defined) makes step fail
\* with UnimplementedOpcode carrying the four nibbles of the fetched
\* instruction, and no other pattern ever gives that failure.
C15_UnknownOpcodes ==
    instruction # <<>> =>
        /\ (panic = "UnimplementedOpcode") <=> UndefinedPattern(instruction)
        /\ panic = "UnimplementedOpcode" =>
              instruction = <<memory[program_counter - 2] \div 16,
                              memory[program_counter - 2] % 16,
                              memory[program_counter - 1] \div 16,
                              memory[program_counter - 1] % 16>>

\* C15 witness: 8XYF, one past the last defined 8XYN, was fetched at 0x200
\* and the run ended there
C15_Witness ==
    /\ panic = "UnimplementedOpcode"
    /\ instruction = <<8, 1, 2, 15>>
    /\ memory[512] = 129 /\ memory[513] = 47
    /\ program_counter = 514

\* C16: FX0A fetched at address A: while no keypad flag is set, every step
\* leaves pc = A and leaves registers, index register, stack, memory and
\* display unchanged, and so does every tick_timers in between; the first
\* step with at least one flag set (a key held since before included) leaves
\* pc = A + 2 and VX equal to the index of a currently pressed key.
C16_WaitForKey ==
    [][/\ OpFX0A =>
            LET X == memory[program_counter] % 16
            IN  IF \A k \in 0..15 : ~keyboard[k]
                THEN /\ program_counter' = program_counter
                     /\ UNCHANGED <<registers, index_register, stack, memory,
                                    display>>
                ELSE /\ program_counter' = program_counter + 2
                     /\ registers'[X] \in 0..15
                     /\ keyboard[registers'[X]]
                     /\ \A r \in 0..15 : r # X => registers'[r] = registers[r]
                     /\ UNCHANGED <<index_register, stack, memory, display>>
       /\ tick_timers =>
            UNCHANGED <<program_counter, registers, index_register, stack,
                        memory, display>>]_vars

\* C16 witness: F40A of RomAll (at 0x24C) has completed with keys 1 and 15
\* both held and three timer ticks taken: pc is 0x24E and V4 holds a pressed
\* key
C16_Witness ==
    /\ instruction = <<15, 4, 0, 10>>
    /\ program_counter = 590
    /\ keyboard[1] /\ keyboard[15]
    /\ registers[4] = 15
    /\ ticks = 3
    /\ panic = "none"

\* C17: a DXYN draw with start x0 = VX mod 64, y0 = VY mod 32 changes only
\* framebuffer cells (x0 + c, y0 + r) with 0 <= c < 8, 0 <= r < N,
\* x0 + c < 64 and y0 + r < 32: columns past the right edge and rows past the
\* bottom edge are dropped, never written into the next row, the top of the
\* screen or outside the grid (the draw does not fail), and every other cell
\* is unchanged.
C17_DrawClips ==
    [][OpDXYN =>
          LET x0 == registers[memory[program_counter] % 16] % 64
              y0 == registers[memory[program_counter + 1] \div 16] % 32
              N == memory[program_counter + 1] % 16
          IN  /\ panic' = "none"
              /\ \A i \in 0..2047 :
                    display'[i] # display[i] =>
                        /\ i % 64 >= x0 /\ i % 64 < x0 + 8
                        /\ i \div 64 >= y0 /\ i \div 64 < y0 + N]_vars

\* C18: the shifts 8XY6 and 8XYE act on VX alone (VY is neither read nor
\* written): after 8XY6, VF = old VX mod 2 and VX = old VX div 2; after 8XYE,
\* VF = old VX div 128 (the high bit as 0 or 1) and VX = (old VX * 2) mod 256;
\* in both cases VF is exactly 0 or 1.
C18_ShiftFlags ==
    [][/\ Op8XY6 =>
            LET X == memory[program_counter] % 16
                Y == memory[program_counter + 1] \div 16
            IN  /\ registers'[15] = registers[X] % 2
                /\ X # 15 => registers'[X] = registers[X] \div 2
                /\ Y \notin {X, 15} => registers'[Y] = registers[Y]
       /\ Op8XYE =>
            LET X == memory[program_counter] % 16
                Y == memory[program_counter + 1] \div 16
            IN  /\ registers'[15] = registers[X] \div 128
                /\ X # 15 => registers'[X] = (registers[X] * 2) % 256
                /\ Y \notin {X, 15} => registers'[Y] = registers[Y]
       /\ (Op8XY6 \/ Op8XYE) => registers'[15] \in {0, 1}]_vars

\* C19: after FX29 the index register is 0x50 + 5 * (VX mod 16) for every
\* value of VX, so that with the font region intact memory[I..I+4] is the
\* glyph of the hexadecimal digit VX mod 16.
C19_FontGlyphAddress ==
    [][OpFX29 =>
          LET digit == registers[memory[program_counter] % 16] % 16
          IN  /\ index_register' = 80 + 5 * digit
              /\ (\A a \in 80..159 : memory[a] = font[a - 79]) =>
                    \A j \in 0..4 :
                        memory'[index_register' + j] = font[5 * digit + j + 1]]_vars

\* C20: the engine is deterministic: from the same state the same call gives
\* the same state, CXNN included. For a CXNN step this says the state it
\* produced is the one every value of the random byte produces.
C20_Deterministic ==
    [][OpCXNN =>
          \A rand_value \in 0..255 :
              registers' =
                  [registers EXCEPT ![memory[program_counter] % 16] =
                      bitand(rand_value, memory[program_counter + 1])]]_vars

\* C21: every opcode 0NNN other than 00E0 and 00EE (0x0000, the content of
\* untouched memory, included) is a no-op that never fails: exactly these
\* patterns reach the no-op arm, and the step only advances pc by 2, leaving
\* registers, index register, stack, memory, timers, display, keypad and the
\* dirty flag unchanged.
C21_MachineCallsAreNoOps ==
    [][/\ CanFetch =>
            ((/\ memory[program_counter] \div 16 = 0
              /\ <<memory[program_counter], memory[program_counter + 1]>>
                    \notin {<<0, 224>>, <<0, 238>>})
             <=> match_arm(Decode) = "0NNN")
       /\ Op0NNN =>
            /\ program_counter' = program_counter + 2
            /\ panic' = "none"
            /\ UNCHANGED <<registers, index_register, stack, memory,
                           delay_timer, sound_timer, display, keyboard,
                           needs_redraw>>]_vars

\* C21 witness: 01E0, which differs from 00E0 in its second nibble only, ran
\* as the first instruction: pc moved to 0x202, nothing failed and the dirty
\* flag is still clear
C21_Witness ==
    /\ instruction = <<0, 1, 14, 0>>
    /\ program_counter = 514
    /\ memory[512] = 1 /\ memory[513] = 224
    /\ ~needs_redraw
    /\ panic = "none"

\* C22: in the host loop each frame (one AboutToWait event) runs
\* TICKS_PER_FRAME = 10 step calls and exactly one tick_timers call, so the
\* timers go down once per frame however many instructions a frame executes.
C22_OneTickPerFrame ==
    /\ frame.ticks <= 1
    /\ (frame.at = "idle" /\ frame.steps > 0) =>
          (frame.steps = 10 /\ frame.ticks = 1)

\* C23: no missed redraw. Whenever the framebuffer differs from what it was
\* at the last was_redrawn call (or at construction), needs_redraw is true.
\* Stated step by step: a call that changes the framebuffer leaves the flag
\* set; the flag goes from set to clear only in was_redrawn; and 00E0, DXYN
\* and reset, the operations that can change the framebuffer, always set it.
C23_NoMissedRedraw ==
    [][/\ display' # display => needs_redraw'
       /\ (needs_redraw /\ ~needs_redraw') => was_redrawn
       /\ (Op00E0 \/ OpDXYN \/ reset) => needs_redraw']_vars

\* C23 witness: D032 of RomAll has drawn its sprite (cells are set, the
\* collision flag is written) and the flag asks for a redraw
C23_Witness ==
    /\ instruction = <<13, 0, 3, 2>>
    /\ program_counter = 558
    /\ \E i \in 0..2047 : display[i]
    /\ needs_redraw
    /\ panic = "none"

\* a store/load program is in memory and its FX65 at 0x210 is next
AtStoreProgramLoad ==
    /\ program_counter = 528
    /\ memory[520] \div 16 = 15 /\ memory[521] = 85
    /\ memory[528] = memory[520] /\ memory[529] = 101

\* C24: for every X and every I with I + X <= 4095, FX55 writes
\* memory[I + i] = Vi for i = 0..X and changes no other cell; a later FX65
\* with the same X and I (memory[I..I+X] not written in between) restores
\* V0..VX to the values they had at the FX55 and leaves V(X+1)..VF
\* unchanged; neither opcode changes the index register. In the store/load
\* programs the values at the FX55 are the bytes a, b, c of the program
\* (V0 = a, V1 = b, VF = c, the others 0), and V0, V1, VF are each
\* incremented before the FX65.
C24_StoreLoadRoundTrip ==
    [][/\ (OpFX55 /\ index_register + (memory[program_counter] % 16) <= 4095) =>
            LET X == memory[program_counter] % 16
            IN  /\ \A a \in 0..4095 :
                      memory'[a] = IF a >= index_register /\ a <= index_register + X
                                   THEN registers[a - index_register]
                                   ELSE memory[a]
                /\ index_register' = index_register
                /\ registers' = registers
                /\ panic' = "none"
       /\ (OpFX65 /\ index_register + (memory[program_counter] % 16) <= 4095) =>
            LET X == memory[program_counter] % 16
            IN  /\ \A r \in 0..15 :
                      registers'[r] = IF r <= X THEN memory[index_register + r]
                                      ELSE registers[r]
                /\ index_register' = index_register
                /\ memory' = memory
                /\ panic' = "none"
       /\ (OpFX65 /\ AtStoreProgramLoad
             /\ index_register + (memory[program_counter] % 16) <= 4095) =>
            LET X == memory[program_counter] % 16
                stored == [r \in 0..15 |->
                              IF r = 0 THEN memory[515]
                              ELSE IF r = 1 THEN memory[517]
                              ELSE IF r = 15 THEN memory[519]
                              ELSE 0]
            IN  \A r \in 0..15 :
                    registers'[r] = IF r <= X THEN stored[r] ELSE registers[r]]_vars

\* C24 witness: with I = 0xFF0 and X = F the store reached the last memory
\* cell, V0, V1 and VF were incremented (255 wrapped to 0), and the load has
\* brought back V0 = 255, V1 = 7 and VF = 9
C24_Witness ==
    /\ instruction = <<15, 15, 6, 5>>
    /\ program_counter = 530
    /\ index_register = 4080
    /\ memory[4080] = 255 /\ memory[4081] = 7 /\ memory[4095] = 9
    /\ registers[0] = 255 /\ registers[1] = 7 /\ registers[15] = 9
    /\ panic = "none"

====
